---------------------------- MODULE Spec2Model ----------------------------
(***************************************************************************)
(* A model of the two extensions of this repository:                       *)
(*                                                                         *)
(*   scrapy/contrib/feedexport.py           the Feed Exporter and its      *)
(*                                          storage backends               *)
(*   scrapy/trunk/scrapy/contrib/itemsampler.py                            *)
(*                                          the Item Sampler pipeline      *)
(*                                          stage and middleware           *)
(*                                                                         *)
(* The two extensions share no state, so each has a specification of its   *)
(* own over its own variables: Spec / FairSpec (Feed Exporter) and         *)
(* SamplerSpec (Item Sampler).                                             *)
(***************************************************************************)
EXTENDS Integers, Sequences, FiniteSets, TLC

(***************************************************************************)
(* Bounds of the model.                                                    *)
(***************************************************************************)
\* How many "opened" signals the engine emits in a run, over all crawl units.
MaxOpens == 2
\* How many records the crawl units of a run produce, over all crawl units.
MaxItems == 2

\* The crawl units (spiders) of a run.
Spiders == {"u1", "u2"}

(***************************************************************************)
(* Python values.                                                          *)
(***************************************************************************)
\* str.lower(), on the format names a run is configured with.
Lower(s) == IF s = "JSON" THEN "json" ELSE IF s = "XML" THEN "xml" ELSE s

\* A dict as a function; d.update(e).
DictUpdate(d, e) ==
    [k \in DOMAIN d \cup DOMAIN e |-> IF k \in DOMAIN e THEN e[k] ELSE d[k]]

\* A dict without the keys outside keep.
DictRestrict(d, keep) == [k \in DOMAIN d \cap keep |-> d[k]]

\* The log, as the bag of the lines logged: line -> how many times.
LogLine(bag, line) ==
    IF line \in DOMAIN bag THEN [bag EXCEPT ![line] = @ + 1] ELSE bag @@ (line :> 1)

RECURSIVE LogLines(_, _)
LogLines(bag, lines) ==
    IF lines = <<>> THEN bag ELSE LogLines(LogLine(bag, Head(lines)), Tail(lines))

\* How many times the line is in the log.
Logged(bag, line) == IF line \in DOMAIN bag THEN bag[line] ELSE 0

(***************************************************************************)
(* URIs.  A URI (and a URI template) is the sequence of its scheme part    *)
(* and its path part; the empty string is <<>>.  A part of a template is   *)
(* either literal text or one named placeholder, "%(key)s".                *)
(***************************************************************************)
Placeholders == {"%(proto)s", "%(name)s", "%(time)s"}
PlaceholderKey(p) ==
    IF p = "%(proto)s" THEN "proto" ELSE IF p = "%(name)s" THEN "name" ELSE "time"

\* urlparse(uri).scheme: the text before the first ':' when it is made of
\* scheme characters alone ('%', '(' and ')' are none), else ''.
urlparse_scheme(uri) ==
    IF uri = <<>> \/ uri[1] \in Placeholders THEN "" ELSE uri[1]

\* urifmt % params
PercentFormat(fmt, params) ==
    [i \in DOMAIN fmt |->
        IF fmt[i] \in Placeholders THEN params[PlaceholderKey(fmt[i])] ELSE fmt[i]]

(***************************************************************************)
(* Settings.  The component registries are those of a run with the four    *)
(* storage backends of feedexport.py, a project backend whose instances    *)
(* are false in a boolean test, and an exporter that is not configured.    *)
(***************************************************************************)
FEED_STORAGES_BASE ==
    [s \in {"", "file", "stdout", "s3", "ftp"} |->
        CASE s = ""       -> "FileFeedStorage"
          [] s = "file"   -> "FileFeedStorage"
          [] s = "stdout" -> "StdoutFeedStorage"
          [] s = "s3"     -> "S3FeedStorage"
          [] s = "ftp"    -> "FTPFeedStorage"]
FEED_STORAGES == [s \in {"null"} |-> "NullFeedStorage"]
FEED_EXPORTERS_BASE ==
    [f \in {"json", "xml"} |->
        IF f = "json" THEN "JsonLinesItemExporter" ELSE "XmlItemExporter"]
FEED_EXPORTERS == [f \in {"xml"} |-> "UnavailableItemExporter"]

\* The feed URI templates a run may be configured with.
UriTemplates ==
    { <<>>,
      <<"stdout", "">>,
      <<"file", "%(name)s">>,
      <<"s3", "bucket/feed.json">>,
      <<"null", "feed">>,
      <<"bogus", "host/path">>,
      <<"%(proto)s", "host/feed.json">> }

\* settings, and the one fact of the installation that the code probes:
\* whether boto can be imported.
SettingsSpace ==
    [ FEED_URI         : UriTemplates,
      FEED_FORMAT      : {"JSON", "XML", "bogus"},
      FEED_STORE_EMPTY : BOOLEAN,
      boto             : BOOLEAN ]

\* The attributes of the spider objects (dir(spider)).
SpiderAttrs(spider) ==
    [ name  |-> spider,
      proto |-> IF spider = "u1" THEN "s3" ELSE "gopher" ]

VARIABLES
    settings,    \* scrapy.conf.settings
    fe,          \* the FeedExporter object: how far __init__ got, its attributes
    connected,   \* the dispatcher: the (signal, receiver) pairs connected
    slots,       \* FeedExporter.slots: spider -> SpiderSlot
    files,       \* the temporary files created so far, in creation order
    stores,      \* the store operations invoked so far, by file
    log,         \* the lines logged so far
    raised,      \* the exceptions that left a handler, to its caller
    handled      \* the signals the exporter has handled so far, per spider

feVars == <<settings, fe, connected, slots, files, stores, log, raised, handled>>

VARIABLES
    items_per_domain,  \* settings.getint('ITEMSAMPLER_COUNT', 1)
    close_domain,      \* settings.getbool('ITEMSAMPLER_CLOSE_DOMAIN', False)
    items,             \* ItemSamplerPipeline.items: guid -> item
    domains_count,     \* ItemSamplerPipeline.domains_count
    empty_domains,     \* ItemSamplerPipeline.empty_domains
    stats,             \* scrapy.stats: path -> value
    engine_closes,     \* scrapyengine.close_domain: domain -> calls received
    sample_file,       \* the content of ITEMSAMPLER_FILE
    ret,               \* the last call of the sampler and the value it returned
    processed          \* history: the items process_item was called with, in order

samplerVars == <<items_per_domain, close_domain, items, domains_count,
                 empty_domains, stats, engine_closes, sample_file, ret, processed>>


(***************************************************************************)
(* FeedExporter: construction.                                             *)
(***************************************************************************)
\* load_object(v): raises NotConfigured for a component that cannot be used
\* in this installation.
LoadRaisesNotConfigured(ref) == ref = "UnavailableItemExporter"

\* FeedExporter._load_components
load_components(base, override) ==
    LET conf == DictUpdate(base, override)
    IN  DictRestrict(conf, {k \in DOMAIN conf : ~LoadRaisesNotConfigured(conf[k])})

\* FeedExporter._get_storage: self.storages[urlparse(uri).scheme](uri).
\* exc is the exception it raises ("" for none), storage the instance.
get_storage(storages, uri, boto) ==
    LET scheme == urlparse_scheme(uri)
    IN  IF scheme \notin DOMAIN storages
        THEN [exc |-> "KeyError", storage |-> "None"]
        ELSE IF storages[scheme] = "S3FeedStorage" /\ ~boto
        THEN [exc |-> "NotConfigured", storage |-> "None"]
        ELSE [exc |-> "", storage |-> storages[scheme]]

\* bool(storage): an instance of the project backend is false.
Truthy(storage) == storage \notin {"None", "NullFeedStorage"}

\* The backends whose store() runs in the calling thread; the others are
\* BlockingFeedStorage and defer it to a thread.
StoresInline(storage) == storage = "StdoutFeedStorage"

\* An _exporter_supported that returns False for an unknown format and logs
\* nothing.
exporter_supported_silent(exporters, format) ==
    IF format \in DOMAIN exporters
    THEN [ok |-> TRUE, log |-> <<>>]
    ELSE [ok |-> FALSE, log |-> <<>>]

\* FeedExporter._exporter_supported: the value it returns, the lines it logs
exporter_supported(exporters, format) ==
    IF format \in DOMAIN exporters
    THEN [ok |-> TRUE, log |-> <<>>]
    ELSE [ok |-> FALSE,
          log |-> <<[level |-> "ERROR", msg |-> "Unknown feed format", arg |-> format]>>]

\* A _storage_supported that looks the scheme up and does not construct the
\* backend.
storage_supported_unprobed(storages, uri, boto) ==
    LET scheme == urlparse_scheme(uri)
    IN  IF scheme \in DOMAIN storages
        THEN [ok |-> TRUE, log |-> <<>>]
        ELSE [ok |-> FALSE,
              log |-> <<[level |-> "ERROR", msg |-> "Unknown feed storage scheme",
                         arg |-> scheme]>>]

\* FeedExporter._storage_supported: the value it returns, the lines it logs
storage_supported(storages, uri, boto) ==
    LET scheme == urlparse_scheme(uri)
    IN  IF scheme \in DOMAIN storages
        THEN IF get_storage(storages, uri, boto).exc = "NotConfigured"
             THEN [ok |-> FALSE,
                   log |-> <<[level |-> "ERROR", msg |-> "Disabled feed storage scheme",
                              arg |-> scheme]>>]
             ELSE [ok |-> TRUE, log |-> <<>>]
        ELSE [ok |-> FALSE,
              log |-> <<[level |-> "ERROR", msg |-> "Unknown feed storage scheme",
                         arg |-> scheme]>>]

NoDict == [k \in {} |-> "None"]

\* The object before __init__ has assigned anything.
NewExporter ==
    [ state |-> "new", attrs |-> {}, urifmt |-> <<>>, format |-> "",
      storages |-> NoDict, exporters |-> NoDict, store_empty |-> FALSE ]

Signals == {"spider_opened", "spider_closed", "item_passed"}

\* The receiver __init__ connects to each signal.
Receiver(signal) ==
    CASE signal = "spider_opened" -> "open_spider"
      [] signal = "spider_closed" -> "close_spider"
      [] signal = "item_passed"   -> "item_passed"

\* FeedExporter.__init__: the object it leaves, the lines it logs, the
\* receivers it connects and the exception it raises, for given settings.
FeedExporter_init_result(s) ==
    LET urifmt    == s.FEED_URI
        format    == Lower(s.FEED_FORMAT)
        storages  == load_components(FEED_STORAGES_BASE, FEED_STORAGES)
        exporters == load_components(FEED_EXPORTERS_BASE, FEED_EXPORTERS)
        sup       == storage_supported(storages, urifmt, s.boto)
        exp       == exporter_supported(exporters, format)
        o1 == [NewExporter EXCEPT !.urifmt = urifmt, !.attrs = {"urifmt"}]
        o2 == [o1 EXCEPT !.format = format, !.storages = storages,
                         !.exporters = exporters,
                         !.attrs = @ \cup {"format", "storages", "exporters"}]
        o3 == [o2 EXCEPT !.store_empty = s.FEED_STORE_EMPTY,
                         !.attrs = @ \cup {"store_empty", "_uripar", "slots"}]
    IN  IF urifmt = <<>>
        THEN [obj |-> [o1 EXCEPT !.state = "failed"], log |-> <<>>,
              connects |-> {}, exc |-> "NotConfigured"]
        ELSE IF ~sup.ok
        THEN [obj |-> [o2 EXCEPT !.state = "failed"], log |-> sup.log,
              connects |-> {}, exc |-> "NotConfigured"]
        ELSE IF ~exp.ok
        THEN [obj |-> [o2 EXCEPT !.state = "failed"], log |-> sup.log \o exp.log,
              connects |-> {}, exc |-> "NotConfigured"]
        ELSE [obj |-> [o3 EXCEPT !.state = "active"], log |-> <<>>,
              connects |-> {<<sig, Receiver(sig)>> : sig \in Signals},
              exc |-> ""]

\* What the exporter has handled for each spider so far: its opened and
\* closed signals, and its records.
NoCounts == [sp \in Spiders |-> [opened |-> 0, closed |-> 0, items |-> 0]]

FeInit ==
    /\ settings \in SettingsSpace
    /\ fe = NewExporter
    /\ connected = {}
    /\ slots = NoDict
    /\ files = <<>>
    /\ stores = <<>>
    /\ log = NoDict
    /\ raised = {}
    /\ handled = NoCounts

\* The extension loader constructs the extension once.
FeedExporter_init ==
    /\ fe.state = "new"
    /\ LET r == FeedExporter_init_result(settings)
       IN  /\ fe' = r.obj
           /\ log' = LogLines(log, r.log)
           /\ connected' = connected \cup r.connects
           /\ raised' = IF r.exc = "" THEN raised
                        ELSE raised \cup {[from |-> "__init__", exc |-> r.exc]}
    /\ UNCHANGED <<settings, slots, files, stores, handled>>
    /\ UNCHANGED samplerVars


(***************************************************************************)
(* The host engine.  It delivers the signals one at a time, and for a      *)
(* crawl unit in the order opened, record produced ..., closed.            *)
(***************************************************************************)
RECURSIVE SumOver(_, _, _)
SumOver(h, field, S) ==
    IF S = {} THEN 0
    ELSE LET sp == CHOOSE x \in S : TRUE
         IN  h[sp][field] + SumOver(h, field, S \ {sp})

\* The unit is between its opened and its closed signal.
Active(sp) == handled[sp].opened > handled[sp].closed

EngineEmits(signal, sp) ==
    CASE signal = "spider_opened" ->
            ~Active(sp) /\ SumOver(handled, "opened", Spiders) < MaxOpens
      [] signal = "item_passed"   ->
            Active(sp) /\ SumOver(handled, "items", Spiders) < MaxItems
      [] signal = "spider_closed" -> Active(sp)

(***************************************************************************)
(* FeedExporter: the signal handlers.                                      *)
(***************************************************************************)
\* SpiderSlot.__init__
SpiderSlot(file) == [file |-> file, itemcount |-> 0]

\* An open_spider that does not call exp.start_exporting().
NewFile_not_started(spider) == [spider |-> spider, content |-> <<>>, closed |-> 0]

\* TemporaryFile(prefix='feed-'), then the exporter's start_exporting() on it
NewFile(spider) == [spider |-> spider, content |-> << <<"begin">> >>, closed |-> 0]

\* What the exporter's calls write to a file: start_exporting() <<"begin">>,
\* export_item(item) the item, finish_exporting() <<"end">>.  The items of a
\* run are distinct objects: the k-th one scraped is <<"item", k>>.
ScrapedNext == {<<"item", SumOver(handled, "items", Spiders) + 1>>}

\* FeedExporter.open_spider
open_spider(spider) ==
    /\ <<"spider_opened", "open_spider">> \in connected
    /\ EngineEmits("spider_opened", spider)
    /\ files' = Append(files, NewFile(spider))
    /\ slots' = DictUpdate(slots, spider :> SpiderSlot(Len(files) + 1))
    /\ handled' = [handled EXCEPT ![spider].opened = @ + 1]
    /\ UNCHANGED <<settings, fe, connected, stores, log, raised>>
    /\ UNCHANGED samplerVars

\* An item_passed that exports the item and does not count it.
CountItem_forgotten(slot) == slot

\* slot.itemcount += 1
CountItem(slot) == [slot EXCEPT !.itemcount = @ + 1]

\* FeedExporter.item_passed
item_passed(item, spider) ==
    /\ <<"item_passed", "item_passed">> \in connected
    /\ EngineEmits("item_passed", spider)
    /\ IF spider \in DOMAIN slots
       THEN LET slot == slots[spider]
            IN  /\ files' = [files EXCEPT ![slot.file].content = Append(@, item)]
                /\ slots' = [slots EXCEPT ![spider] = CountItem(slot)]
                /\ raised' = raised
       ELSE /\ raised' = raised \cup
                    {[from |-> "item_passed", spider |-> spider, exc |-> "KeyError"]}
            /\ UNCHANGED <<files, slots>>
    /\ handled' = [handled EXCEPT ![spider].items = @ + 1]
    /\ UNCHANGED <<settings, fe, connected, stores, log>>
    /\ UNCHANGED samplerVars


\* A close_spider that reads the slot and leaves it in the dict:
\* self.slots[spider]
pop_reads(d, k) == d

\* self.slots.pop(spider)
pop(d, k) == DictRestrict(d, DOMAIN d \ {k})

\* A close_spider that skips every empty feed: not slot.itemcount
SkipsEmpty_always(slot, store_empty) == slot.itemcount = 0

\* not slot.itemcount and not self.store_empty
SkipsEmpty(slot, store_empty) == slot.itemcount = 0 /\ ~store_empty

\* FeedExporter._get_uri_params; the default self._uripar leaves params alone
get_uri_params(spider) ==
    [k \in {"name", "proto", "time"} |->
        IF k = "time" THEN "utcnow" ELSE SpiderAttrs(spider)[k]]

\* A close_spider that adds the closing of the file before the two log calls.
StoreCallbacks_close_first ==
    << [on |-> "both",     do |-> "file.close"],
       [on |-> "callback", do |-> "log.msg Stored"],
       [on |-> "errback",  do |-> "log.err Error storing"] >>

\* A close_spider that adds log.err with addBoth.
StoreCallbacks_err_on_both ==
    << [on |-> "callback", do |-> "log.msg Stored"],
       [on |-> "both",     do |-> "log.err Error storing"],
       [on |-> "both",     do |-> "file.close"] >>

\* A close_spider that adds no errback.
StoreCallbacks_no_errback ==
    << [on |-> "callback", do |-> "log.msg Stored"],
       [on |-> "both",     do |-> "file.close"] >>

\* The callbacks close_spider adds to the deferred, in the order it adds them.
StoreCallbacks ==
    << [on |-> "callback", do |-> "log.msg Stored"],
       [on |-> "errback",  do |-> "log.err Error storing"],
       [on |-> "both",     do |-> "file.close"] >>

\* A Deferred running its callback chain from a result: a callback runs on
\* a success, an errback on a failure, and each of these returns None, which
\* makes the result a success.  fired: the functions that ran, in order.
RECURSIVE RunCallbacks(_, _, _)
RunCallbacks(chain, result, fired) ==
    IF chain = <<>>
    THEN [result |-> result, fired |-> fired]
    ELSE LET cb == Head(chain)
             runs == \/ cb.on = "both"
                     \/ cb.on = "callback" /\ result = "success"
                     \/ cb.on = "errback" /\ result = "failure"
         IN  IF runs
             THEN RunCallbacks(Tail(chain), "success", Append(fired, cb.do))
             ELSE RunCallbacks(Tail(chain), result, fired)

\* defer.maybeDeferred(storage.store, slot.file, spider) and the callbacks
\* added to it: the store operation as close_spider leaves it when the
\* backend has deferred the work to a thread.
NewStore(file, spider, storage, logfmt) ==
    [ file |-> file, spider |-> spider, storage |-> storage, logfmt |-> logfmt,
      state |-> "running", outcome |-> "", fired |-> <<>>, result |-> "" ]

\* The store operation once its outcome is known and its callbacks have run.
Complete(store, outcome) ==
    LET r == RunCallbacks(StoreCallbacks, outcome, <<>>)
    IN  [store EXCEPT !.state = "done", !.outcome = outcome,
                      !.fired = r.fired, !.result = r.result]

IsLogCall(do) == do \in {"log.msg Stored", "log.err Error storing"}

\* Callbacks that format the line when they run, from the counts of the unit
\* closed last, instead of the logfmt of their own close_spider call.
OutcomeLine_late(do, store) ==
    LET last == IF stores = <<>> THEN store ELSE stores[Len(stores)]
    IN  [ level  |-> IF do = "log.msg Stored" THEN "INFO" ELSE "ERROR",
          msg    |-> IF do = "log.msg Stored" THEN "Stored" ELSE "Error storing",
          format |-> last.logfmt.format, items |-> last.logfmt.items,
          bytes  |-> last.logfmt.bytes, uri |-> last.logfmt.uri,
          spider |-> store.spider ]

\* logfmt % "Stored" through log.msg, logfmt % "Error storing" through log.err
OutcomeLine(do, store) ==
    [ level  |-> IF do = "log.msg Stored" THEN "INFO" ELSE "ERROR",
      msg    |-> IF do = "log.msg Stored" THEN "Stored" ELSE "Error storing",
      format |-> store.logfmt.format, items |-> store.logfmt.items,
      bytes  |-> store.logfmt.bytes, uri |-> store.logfmt.uri,
      spider |-> store.spider ]

\* The lines the callbacks that ran have logged, in order.
LoggedBy(store) ==
    LET calls == SelectSeq(store.fired, IsLogCall)
    IN  [i \in DOMAIN calls |-> OutcomeLine(calls[i], store)]

\* How many times the callbacks that ran have closed the file.
ClosedBy(store) ==
    Cardinality({i \in DOMAIN store.fired : store.fired[i] = "file.close"})

\* FeedExporter.close_spider
close_spider(spider) ==
    /\ <<"spider_closed", "close_spider">> \in connected
    /\ EngineEmits("spider_closed", spider)
    /\ handled' = [handled EXCEPT ![spider].closed = @ + 1]
    /\ IF spider \notin DOMAIN slots
       THEN /\ raised' = raised \cup
                    {[from |-> "close_spider", spider |-> spider, exc |-> "KeyError"]}
            /\ UNCHANGED <<slots, files, stores, log>>
       ELSE
       LET slot == slots[spider]
       IN  /\ slots' = pop(slots, spider)
           /\ IF SkipsEmpty(slot, fe.store_empty)
              THEN UNCHANGED <<files, stores, log, raised>>
              ELSE
              LET \* slot.exporter.finish_exporting()
                  finished == [files EXCEPT ![slot.file].content = Append(@, <<"end">>)]
                  \* slot.file.tell()
                  nbytes == Len(finished[slot.file].content)
                  uri == PercentFormat(fe.urifmt, get_uri_params(spider))
                  got == get_storage(fe.storages, uri, settings.boto)
                  logfmt == [format |-> fe.format, items |-> slot.itemcount,
                             bytes |-> nbytes, uri |-> uri]
                  store == NewStore(slot.file, spider, got.storage, logfmt)
              IN  IF got.exc # ""
                  THEN /\ files' = finished
                       /\ raised' = raised \cup
                            {[from |-> "close_spider", spider |-> spider, exc |-> got.exc]}
                       /\ UNCHANGED <<stores, log>>
                  ELSE IF ~Truthy(got.storage)
                  THEN /\ files' = finished
                       /\ UNCHANGED <<stores, log, raised>>
                  ELSE IF StoresInline(got.storage)
                  THEN \E outcome \in {"success", "failure"} :
                          LET done == Complete(store, outcome)
                          IN  /\ stores' = Append(stores, done)
                              /\ log' = LogLines(log, LoggedBy(done))
                              /\ files' = [finished EXCEPT
                                             ![slot.file].closed = @ + ClosedBy(done)]
                              /\ raised' = raised
                  ELSE /\ stores' = Append(stores, store)
                       /\ files' = finished
                       /\ UNCHANGED <<log, raised>>
    /\ UNCHANGED <<settings, fe, connected>>
    /\ UNCHANGED samplerVars

\* BlockingFeedStorage._store_in_thread, in a thread of the pool: it ends,
\* or raises.  The result waits for the reactor thread.
store_in_thread(i) ==
    /\ i \in DOMAIN stores
    /\ stores[i].state = "running"
    /\ \E outcome \in {"success", "failure"} :
          stores' = [stores EXCEPT ![i].state = "finished", ![i].outcome = outcome]
    /\ UNCHANGED <<settings, fe, connected, slots, files, log, raised, handled>>
    /\ UNCHANGED samplerVars

\* The reactor thread runs the deferred's callbacks with the thread's result.
fire_callbacks(i) ==
    /\ i \in DOMAIN stores
    /\ stores[i].state = "finished"
    /\ LET done == Complete(stores[i], stores[i].outcome)
       IN  /\ stores' = [stores EXCEPT ![i] = done]
           /\ log' = LogLines(log, LoggedBy(done))
           /\ files' = [files EXCEPT ![done.file].closed = @ + ClosedBy(done)]
    /\ UNCHANGED <<settings, fe, connected, slots, raised, handled>>
    /\ UNCHANGED samplerVars

FeNext ==
    \/ FeedExporter_init
    \/ \E spider \in Spiders : open_spider(spider)
    \/ \E spider \in Spiders, item \in ScrapedNext : item_passed(item, spider)
    \/ \E spider \in Spiders : close_spider(spider)
    \/ \E i \in DOMAIN stores : store_in_thread(i)
    \/ \E i \in DOMAIN stores : fire_callbacks(i)

(***************************************************************************)
(* The Item Sampler: itemsampler.py.                                       *)
(***************************************************************************)
\* The largest ITEMSAMPLER_COUNT of the runs modelled, how many
\* domain_closed signals the engine emits in a run, and how many items the
\* pipeline passes to process_item in a run; and how many of the two there
\* are in a run, together.
MaxQuota == 2
MaxCloses == 3
MaxCalls == 3
MaxSignals == 4

Domains == {"d1", "d2"}
Guids == {"g1", "g2", "g3"}
\* The scraped items: an item has its guid and the domain it was scraped from.
ScrapedItems == [guid : Guids, domain : Domains]
Statuses == {"finished", "cancelled"}
Results == {"requests", "items"}

\* "%s/items_sampled" % domain
SampledPath(domain) == <<domain, "items_sampled">>

\* stats.getpath(path, default)
getpath(st, path, default) == IF path \in DOMAIN st THEN st[path] ELSE default

\* stats.getpath(path): the value, or None.  A value that may be None is
\* the set of the value, None the empty set.
getpath_or_None(st, path) == IF path \in DOMAIN st THEN {st[path]} ELSE {}

\* A stats.setpath that loses the value.
setpath_lost(st, path, value) == st

\* stats.setpath(path, value)
setpath(st, path, value) == DictUpdate(st, path :> value)

\* a >= n in Python 2, which orders None below every number
PyGe(a, n) == \E v \in a : v >= n

\* bool(a) of a number or None
PyTruth(a) == \E v \in a : v # 0

\* A process_item that stops one record short of the quota.
BelowQuota_short(sampled, quota) == sampled + 1 < quota

\* A process_item that compares with <=
BelowQuota_inclusive(sampled, quota) == sampled <= quota

\* stats.getpath("%s/items_sampled" % spider.domain_name) >= items_per_domain
AtQuota(st, domain_name, quota) ==
    PyGe(getpath_or_None(st, SampledPath(domain_name)), quota)

\* sampled < items_per_domain
BelowQuota(sampled, quota) == sampled < quota

\* A process_item that asks for the close with every record it retains.
FillsQuota_every_record(flag, sampled, quota) == flag /\ sampled <= quota

\* close_domain and sampled == items_per_domain
FillsQuota(flag, sampled, quota) == flag /\ sampled = quota

SamplerInit ==
    /\ items_per_domain \in 0..MaxQuota
    /\ close_domain \in BOOLEAN
    /\ items = NoDict
    /\ domains_count = 0
    /\ empty_domains = {}
    /\ stats = NoDict
    /\ engine_closes = [d \in Domains |-> 0]
    /\ sample_file = [written |-> FALSE, content |-> NoDict]
    /\ ret = [call |-> "__init__", item |-> {}, result |-> "None"]
    /\ processed = <<>>

\* The engine calls the sampler until it has stopped: engine_stopped is the
\* last signal of a run.
EngineRunning == ~sample_file.written

\* ItemSamplerPipeline.process_item
process_item(domain, item) ==
    LET sampled == getpath(stats, SampledPath(domain), 0)
    IN  /\ EngineRunning
        /\ Len(processed) < MaxCalls
        /\ Len(processed) + domains_count < MaxSignals
        /\ processed' = Append(processed, item)
        /\ IF BelowQuota(sampled, items_per_domain)
           THEN /\ items' = DictUpdate(items, item.guid :> item)
                /\ stats' = setpath(stats, SampledPath(domain), sampled + 1)
                /\ engine_closes' =
                      IF FillsQuota(close_domain, sampled + 1, items_per_domain)
                      THEN [engine_closes EXCEPT ![domain] = @ + 1]
                      ELSE engine_closes
           ELSE UNCHANGED <<items, stats, engine_closes>>
        /\ ret' = [call |-> "process_item", item |-> {item}, result |-> "item"]
        /\ UNCHANGED <<items_per_domain, close_domain, domains_count,
                       empty_domains, sample_file>>
        /\ UNCHANGED feVars

\* ItemSamplerPipeline.engine_stopped
engine_stopped ==
    /\ EngineRunning
    /\ sample_file' = [written |-> TRUE, content |-> items]
    /\ ret' = [call |-> "engine_stopped", item |-> {}, result |-> "None"]
    /\ UNCHANGED <<items_per_domain, close_domain, items, domains_count,
                   empty_domains, stats, engine_closes, processed>>
    /\ UNCHANGED feVars

\* A domain_closed that does not look at the status.
CountsAsEmpty_any_status(status, sampled) == ~PyTruth(sampled)

\* status == 'finished' and not stats.getpath("%s/items_sampled" % domain)
CountsAsEmpty(status, sampled) == status = "finished" /\ ~PyTruth(sampled)

\* A domain_closed whose increment is indented under the if.
NextDomainsCount_if_empty(count, empty) == IF empty THEN count + 1 ELSE count

\* self.domains_count += 1, whatever the if before it did
NextDomainsCount(count, empty) == count + 1

\* ItemSamplerPipeline.domain_closed
domain_closed(domain, status) ==
    /\ EngineRunning
    /\ domains_count < MaxCloses
    /\ Len(processed) + domains_count < MaxSignals
    /\ empty_domains' =
          IF CountsAsEmpty(status, getpath_or_None(stats, SampledPath(domain)))
          THEN empty_domains \cup {domain}
          ELSE empty_domains
    /\ domains_count' =
          NextDomainsCount(domains_count,
              CountsAsEmpty(status, getpath_or_None(stats, SampledPath(domain))))
    /\ ret' = [call |-> "domain_closed", item |-> {}, result |-> "None"]
    /\ UNCHANGED <<items_per_domain, close_domain, items, stats, engine_closes,
                   sample_file, processed>>
    /\ UNCHANGED feVars

\* ItemSamplerMiddleware.process_scrape
process_scrape(domain_name) ==
    /\ EngineRunning
    /\ ret' = [call |-> "process_scrape", item |-> {},
               result |-> IF AtQuota(stats, domain_name, items_per_domain)
                          THEN "[]" ELSE "None"]
    /\ UNCHANGED <<items_per_domain, close_domain, items, domains_count,
                   empty_domains, stats, engine_closes, sample_file, processed>>
    /\ UNCHANGED feVars

\* ItemSamplerMiddleware.process_result
process_result(result, domain_name) ==
    /\ EngineRunning
    /\ ret' = [call |-> "process_result", item |-> {},
               result |-> IF AtQuota(stats, domain_name, items_per_domain)
                          THEN "[]" ELSE result]
    /\ UNCHANGED <<items_per_domain, close_domain, items, domains_count,
                   empty_domains, stats, engine_closes, sample_file, processed>>
    /\ UNCHANGED feVars

SamplerNext ==
    \/ \E item \in ScrapedItems : process_item(item.domain, item)
    \/ \E domain \in Domains, status \in Statuses : domain_closed(domain, status)
    \/ engine_stopped
    \/ \E domain \in Domains : process_scrape(domain)
    \/ \E domain \in Domains, result \in Results : process_result(result, domain)

(***************************************************************************)
(* The specifications.  A run of one extension leaves the other as it was  *)
(* constructed.                                                            *)
(***************************************************************************)
vars == <<feVars, samplerVars>>

\* The Feed Exporter in a run without the sampler
FeIdle ==
    /\ settings = [FEED_URI |-> <<>>, FEED_FORMAT |-> "JSON",
                   FEED_STORE_EMPTY |-> FALSE, boto |-> FALSE]
    /\ fe = NewExporter
    /\ connected = {}
    /\ slots = NoDict
    /\ files = <<>>
    /\ stores = <<>>
    /\ log = NoDict
    /\ raised = {}
    /\ handled = NoCounts

\* The sampler in a run of the Feed Exporter alone
SamplerIdle ==
    /\ items_per_domain = 1
    /\ close_domain = FALSE
    /\ items = NoDict
    /\ domains_count = 0
    /\ empty_domains = {}
    /\ stats = NoDict
    /\ engine_closes = [d \in Domains |-> 0]
    /\ sample_file = [written |-> FALSE, content |-> NoDict]
    /\ ret = [call |-> "__init__", item |-> {}, result |-> "None"]
    /\ processed = <<>>

Init == FeInit /\ SamplerIdle
Next == FeNext
Spec == Init /\ [][Next]_vars

\* The runs of an installation with boto and a format that is configured:
\* the runs in which feeds are stored.  The pool runs every deferred store to
\* its end, and the reactor reports every result.
FairInit == Init /\ settings.boto /\ settings.FEED_FORMAT = "JSON"
FairSpec ==
    /\ FairInit
    /\ [][Next]_vars
    /\ \A i \in 1..MaxOpens :
          WF_vars(store_in_thread(i)) /\ WF_vars(fire_callbacks(i))

SInit == FeIdle /\ SamplerInit
SamplerSpec == SInit /\ [][SamplerNext]_vars

(***************************************************************************)
(* Properties of the Feed Exporter.                                        *)
(***************************************************************************)
\* The records serialized into a stream.
ItemsIn(content) == Cardinality({i \in DOMAIN content : content[i][1] = "item"})

\* The file's crawl unit has been closed: no slot holds the file any more.
Finalized(f) == \A sp \in DOMAIN slots : slots[sp].file # f

\* The store operations invoked on the file.
StoresOf(f) == {i \in DOMAIN stores : stores[i].file = f}

\* The URI formatted for the spider at close time names a backend of the
\* registry that can be constructed and is true in a boolean test.
Resolves(spider) ==
    LET got == get_storage(fe.storages,
                           PercentFormat(fe.urifmt, get_uri_params(spider)),
                           settings.boto)
    IN  got.exc = "" /\ Truthy(got.storage)

\* The outcome line of a store operation that is done.
LineOf(store) ==
    OutcomeLine(IF store.outcome = "success"
                THEN "log.msg Stored" ELSE "log.err Error storing", store)

\* C1: a spider has a slot in FeedExporter.slots if and only if its opened
\* signal has been handled and its closed signal has not; the slot's file is
\* a file of that spider.
C1_SlotIffOpen ==
    \A sp \in Spiders :
        /\ (sp \in DOMAIN slots) <=> Active(sp)
        /\ sp \in DOMAIN slots =>
              /\ slots[sp].file \in DOMAIN files
              /\ files[slots[sp].file].spider = sp

\* C1, its case: one spider has been opened and closed and has no slot,
\* while another is open and has one.
C1_Witness ==
    \E sp \in Spiders, other \in Spiders :
        /\ handled[sp].closed >= 1 /\ sp \notin DOMAIN slots
        /\ other \in DOMAIN slots

\* C2 as stated: a unit closed after N > 0 records, with FEED_STORE_EMPTY
\* false, has had store invoked exactly once, on a stream of exactly N
\* records, and the line logged for it reports N items.
C2_StoredOnceWithCount_Original ==
    \A f \in DOMAIN files :
        (Finalized(f) /\ ItemsIn(files[f].content) > 0 /\ ~fe.store_empty) =>
            /\ Cardinality(StoresOf(f)) = 1
            /\ \A i \in StoresOf(f) :
                  /\ stores[i].logfmt.items = ItemsIn(files[f].content)
                  /\ stores[i].state = "done" => Logged(log, LineOf(stores[i])) >= 1

\* C2, amended: the same for a unit whose formatted URI resolves to a storage
\* backend; and the count of every slot is the number of records written to
\* its stream.
C2_StoredOnceWithCount ==
    /\ \A sp \in DOMAIN slots :
          slots[sp].itemcount = ItemsIn(files[slots[sp].file].content)
    /\ \A f \in DOMAIN files :
          (/\ Finalized(f) /\ ItemsIn(files[f].content) > 0 /\ ~fe.store_empty
           /\ Resolves(files[f].spider)) =>
              /\ Cardinality(StoresOf(f)) = 1
              /\ \A i \in StoresOf(f) :
                    /\ stores[i].logfmt.items = ItemsIn(files[f].content)
                    /\ stores[i].state = "done" => Logged(log, LineOf(stores[i])) >= 1

\* C2, its case: a unit closed after two records, FEED_STORE_EMPTY false,
\* its store done and its line logged.
C2_Witness ==
    \E i \in DOMAIN stores :
        /\ ~fe.store_empty
        /\ stores[i].state = "done"
        /\ ItemsIn(files[stores[i].file].content) = 2
        /\ stores[i].logfmt.items = 2
        /\ Logged(log, LineOf(stores[i])) = 1

\* C3 as stated: at close, store is invoked if and only if the count is not
\* zero or FEED_STORE_EMPTY is true; an empty feed that is skipped has no
\* 'end' either, and an empty feed with the flag true is stored exactly once.
C3_StoreIffNonEmptyOrFlag_Original ==
    \A f \in DOMAIN files :
        Finalized(f) =>
            LET n == ItemsIn(files[f].content)
            IN  /\ (StoresOf(f) # {}) <=> (n > 0 \/ fe.store_empty)
                /\ (n = 0 /\ ~fe.store_empty) =>
                      \A k \in DOMAIN files[f].content : files[f].content[k] # <<"end">>
                /\ (n = 0 /\ fe.store_empty) => Cardinality(StoresOf(f)) = 1

\* C3, amended: at close, store is invoked if and only if the count is not
\* zero or FEED_STORE_EMPTY is true, and the formatted URI resolves to a
\* storage backend; it is invoked at most once; an empty feed that is skipped
\* has no 'end' either.
C3_StoreIffNonEmptyOrFlag ==
    \A f \in DOMAIN files :
        Finalized(f) =>
            LET n == ItemsIn(files[f].content)
            IN  /\ (StoresOf(f) # {}) <=>
                      ((n > 0 \/ fe.store_empty) /\ Resolves(files[f].spider))
                /\ Cardinality(StoresOf(f)) <= 1
                /\ (n = 0 /\ ~fe.store_empty) =>
                      \A k \in DOMAIN files[f].content : files[f].content[k] # <<"end">>

\* C3, its cases: an empty feed stored because the flag is true ...
C3_Witness ==
    \E f \in DOMAIN files :
        /\ Finalized(f) /\ ItemsIn(files[f].content) = 0
        /\ fe.store_empty /\ Cardinality(StoresOf(f)) = 1

\* The place of a call in the callbacks that ran (0: it did not run).
FiredAt(store, do) ==
    IF \E k \in DOMAIN store.fired : store.fired[k] = do
    THEN CHOOSE k \in DOMAIN store.fired : store.fired[k] = do
    ELSE 0

\* The file of a store that is in flight is open; the file of a store that is
\* done was closed once, by a callback that ran after the one that logged the
\* outcome; no file is closed twice.
ClosedOnceAfterStore ==
    /\ \A f \in DOMAIN files : files[f].closed <= 1
    /\ \A i \in DOMAIN stores :
          LET store == stores[i]
          IN  /\ store.state \in {"running", "finished"} => files[store.file].closed = 0
              /\ store.state = "done" =>
                    /\ files[store.file].closed = 1
                    /\ ClosedBy(store) = 1
                    /\ Logged(log, LineOf(store)) >= 1
                    /\ \E k \in DOMAIN store.fired :
                          /\ IsLogCall(store.fired[k])
                          /\ k < FiredAt(store, "file.close")

\* C4: for every store operation close_spider invokes, whether it succeeds
\* or fails, the temporary file is eventually closed, exactly once, after the
\* store has ended and its outcome has been logged, and never while the store
\* is in flight.
C4_StreamClosedAfterStore ==
    /\ []ClosedOnceAfterStore
    /\ \A i \in 1..MaxOpens :
          (i \in DOMAIN stores) ~>
              (/\ i \in DOMAIN stores
               /\ stores[i].state = "done" /\ files[stores[i].file].closed = 1)

\* C4, its case: a deferred store has failed, its outcome is logged and its
\* file closed, while another store is still in flight with its file open.
C4_Witness ==
    \E i \in DOMAIN stores, j \in DOMAIN stores :
        /\ ~StoresInline(stores[i].storage)
        /\ stores[i].state = "done" /\ stores[i].outcome = "failure"
        /\ files[stores[i].file].closed = 1
        /\ stores[j].state = "running" /\ files[stores[j].file].closed = 0

\* C5: once the closed signal of a unit has been handled, the exporter
\* eventually closes the file of the slot it removed, on every path of
\* close_spider.
C5_StreamClosedOnEveryPath ==
    \A f \in 1..MaxOpens :
        (f \in DOMAIN files /\ Finalized(f)) ~>
            (f \in DOMAIN files /\ files[f].closed >= 1)

\* C6: every store operation that has ended has logged exactly one line, the
\* one of its outcome ("Stored" for a success, "Error storing" for a
\* failure), with the item count, byte count and URI of its file at close
\* time; the log holds no other outcome line.
C6_OneOutcomeLine ==
    /\ \A i \in DOMAIN stores :
          LET store == stores[i]
              file  == files[store.file]
          IN  /\ store.logfmt.items = ItemsIn(file.content)
              /\ store.logfmt.bytes = Len(file.content)
              /\ store.logfmt.uri = PercentFormat(settings.FEED_URI,
                                                  get_uri_params(store.spider))
              /\ store.logfmt.format = Lower(settings.FEED_FORMAT)
              /\ store.state = "done" =>
                    /\ LoggedBy(store) = <<LineOf(store)>>
                    /\ LineOf(store).msg =
                          IF store.outcome = "success" THEN "Stored" ELSE "Error storing"
    /\ \A line \in DOMAIN log :
          line.msg \in {"Stored", "Error storing"} =>
              log[line] = Cardinality({i \in DOMAIN stores :
                              stores[i].state = "done" /\ LineOf(stores[i]) = line})

\* C6, its case: one store has succeeded and one has failed, each with its
\* line in the log.
C6_Witness ==
    \E i \in DOMAIN stores, j \in DOMAIN stores :
        /\ stores[i].state = "done" /\ stores[i].outcome = "success"
        /\ stores[j].state = "done" /\ stores[j].outcome = "failure"
        /\ LineOf(stores[i]).msg = "Stored" /\ Logged(log, LineOf(stores[i])) = 1
        /\ LineOf(stores[j]).msg = "Error storing" /\ Logged(log, LineOf(stores[j])) = 1

\* A store ends in failure in this step.
FailsNow(i) ==
    /\ i \in DOMAIN stores'
    /\ stores'[i].state = "done" /\ stores'[i].outcome = "failure"
    /\ i \in DOMAIN stores => stores[i].state # "done"

\* The step leaves alone every slot, file and store operation but those of
\* store i, and no exception leaves the handler.
LeavesOthersAlone(i) ==
    /\ \A sp \in DOMAIN slots :
          slots[sp].file # stores'[i].file =>
              sp \in DOMAIN slots' /\ slots'[sp] = slots[sp]
    /\ \A sp \in DOMAIN slots' : sp \in DOMAIN slots
    /\ \A f \in DOMAIN files : f # stores'[i].file => files'[f] = files[f]
    /\ \A j \in DOMAIN stores : j # i => stores'[j] = stores[j]
    /\ raised' = raised

\* C7: a store failure is consumed by the errback: the deferred ends with a
\* result that is no failure and no exception reaches the engine; and the
\* step in which a store fails leaves the slots, counts, files and store
\* operations of the other units as they were.
C7_StoreFailureIsolated ==
    /\ [](\A i \in DOMAIN stores :
             stores[i].state = "done" =>
                /\ stores[i].result = "success"
                /\ stores[i].outcome = "failure" =>
                      FiredAt(stores[i], "log.err Error storing") > 0)
    /\ [][\A i \in 1..MaxOpens : FailsNow(i) => LeavesOthersAlone(i)]_vars

\* C7, its case: a store has failed, and the feed of a unit closed after it
\* is stored and logged all the same.
C7_Witness ==
    \E i \in DOMAIN stores, j \in DOMAIN stores :
        /\ i < j
        /\ stores[i].state = "done" /\ stores[i].outcome = "failure"
        /\ stores[j].state = "done" /\ stores[j].outcome = "success"
        /\ stores[j].spider # stores[i].spider
        /\ Logged(log, LineOf(stores[j])) = 1
        /\ files[stores[j].file].closed = 1

\* The schemes and formats of the registries of the run, as configured.
ConfiguredSchemes == {"", "file", "stdout", "s3", "ftp", "null"}
ConfiguredFormats == {"json"}

\* The settings __init__ is to refuse: an empty URI template, a scheme that
\* is not configured, the s3 scheme without boto, a format that is not
\* configured.
Unsupported(s) ==
    \/ s.FEED_URI = <<>>
    \/ urlparse_scheme(s.FEED_URI) \notin ConfiguredSchemes
    \/ urlparse_scheme(s.FEED_URI) = "s3" /\ ~s.boto
    \/ Lower(s.FEED_FORMAT) \notin ConfiguredFormats

AllReceivers ==
    { <<"spider_opened", "open_spider">>, <<"spider_closed", "close_spider">>,
      <<"item_passed", "item_passed">> }

\* C8: construction does not activate the exporter in part.  When __init__
\* raises NotConfigured (an empty URI template, an unknown scheme, a scheme
\* whose probe raises NotConfigured, an unknown format) no receiver is
\* connected and the object has no slots; when it returns, the three
\* receivers are connected.
C8_NoPartialActivation ==
    /\ fe.state = "new" => connected = {}
    /\ fe.state # "new" => (fe.state = "failed" <=> Unsupported(settings))
    /\ fe.state = "failed" =>
          /\ connected = {}
          /\ "slots" \notin fe.attrs
          /\ slots = NoDict /\ files = <<>>
          /\ raised = {[from |-> "__init__", exc |-> "NotConfigured"]}
    /\ fe.state = "active" =>
          /\ connected = AllReceivers
          /\ "slots" \in fe.attrs
          /\ \A r \in raised : r.from # "__init__"

\* C8, its cases: a construction that failed on the probe of its scheme ...
C8_Witness ==
    /\ fe.state = "failed"
    /\ settings.FEED_URI # <<>> /\ urlparse_scheme(settings.FEED_URI) = "s3"
    /\ ~settings.boto
    /\ connected = {}

\* The one line __init__ logs for a scheme or a format.
Diagnostic(msg, arg) == [level |-> "ERROR", msg |-> msg, arg |-> arg]

\* C9 as stated: a construction that fails on the scheme or the format has
\* logged the line of each of them that is unsupported: "Unknown feed storage
\* scheme" for a scheme not in the registry, "Disabled feed storage scheme"
\* for one whose probe raises NotConfigured, and "Unknown feed format" for a
\* format not in the registry, also when the scheme is unsupported as well.
C9_DiagnosticBeforeFailure_Original ==
    (fe.state = "failed" /\ settings.FEED_URI # <<>>) =>
        LET scheme == urlparse_scheme(settings.FEED_URI)
            format == Lower(settings.FEED_FORMAT)
        IN  /\ scheme \notin ConfiguredSchemes =>
                  Logged(log, Diagnostic("Unknown feed storage scheme", scheme)) = 1
            /\ (scheme = "s3" /\ ~settings.boto) =>
                  Logged(log, Diagnostic("Disabled feed storage scheme", scheme)) = 1
            /\ format \notin ConfiguredFormats =>
                  Logged(log, Diagnostic("Unknown feed format", format)) = 1

\* C9, amended: a construction that fails on the scheme or the format has
\* logged exactly one line, naming the first of them that is unsupported: the
\* line of the scheme when the scheme is unsupported, whatever the format,
\* and "Unknown feed format" when the scheme is supported and the format is
\* not.
C9_DiagnosticBeforeFailure ==
    /\ (fe.state = "failed" /\ settings.FEED_URI # <<>>) =>
          LET scheme == urlparse_scheme(settings.FEED_URI)
              format == Lower(settings.FEED_FORMAT)
          IN  log = IF scheme \notin ConfiguredSchemes
                    THEN Diagnostic("Unknown feed storage scheme", scheme) :> 1
                    ELSE IF scheme = "s3" /\ ~settings.boto
                    THEN Diagnostic("Disabled feed storage scheme", scheme) :> 1
                    ELSE Diagnostic("Unknown feed format", format) :> 1
    /\ (fe.state = "failed" /\ settings.FEED_URI = <<>>) => log = NoDict

\* C9, its case: a construction that failed with the scheme and the format
\* both unsupported.
C9_Witness ==
    /\ fe.state = "failed"
    /\ settings.FEED_URI # <<>>
    /\ urlparse_scheme(settings.FEED_URI) \notin ConfiguredSchemes
    /\ Lower(settings.FEED_FORMAT) \notin ConfiguredFormats
    /\ Logged(log, Diagnostic("Unknown feed storage scheme", "bogus")) = 1

(***************************************************************************)
(* Properties of the Item Sampler.                                         *)
(***************************************************************************)
\* The guids under which the sample holds an item scraped from the domain.
SampleOf(domain) == {g \in DOMAIN items : items[g].domain = domain}

\* C10: the sample never holds more items of one domain than
\* ITEMSAMPLER_COUNT, whatever the calls of process_item were.
C10_SampleWithinQuota ==
    \A d \in Domains : Cardinality(SampleOf(d)) <= items_per_domain

\* C10, its case: a domain has filled its quota, and the item process_item
\* was last called with, an item of that domain, was not retained.
C10_Witness ==
    \E d \in Domains :
        /\ items_per_domain >= 1
        /\ Cardinality(SampleOf(d)) = items_per_domain
        /\ ret.call = "process_item"
        /\ \E it \in ret.item : it.domain = d /\ it.guid \notin SampleOf(d)

\* The run so far is one of a single crawl unit whose records have distinct
\* identifiers.
SingleUnit(d) ==
    /\ \A k \in DOMAIN processed : processed[k].domain = d
    /\ \A k, l \in DOMAIN processed : processed[k].guid = processed[l].guid => k = l

Min(a, b) == IF a <= b THEN a ELSE b

\* The sample map that holds the first n records of the run and no other.
FirstRecords(n) ==
    [g \in {processed[k].guid : k \in 1..Min(n, Len(processed))} |->
        CHOOSE it \in {processed[k] : k \in 1..Min(n, Len(processed))} : it.guid = g]

\* process_item has just been called with a record when the unit's quota was
\* filled already.
LaterCall(d) ==
    /\ processed' # processed
    /\ processed'[Len(processed')].domain = d
    /\ getpath(stats, SampledPath(d), 0) >= items_per_domain

\* C11: in a run of a single crawl unit whose records have distinct
\* identifiers, with any quota q, the sample map holds exactly the first q
\* records under their identifiers and the sampled count is the number of
\* them; a call of process_item for a unit whose quota is filled leaves the
\* sample map and the sampled counts as they were; and every call of
\* process_item returns the record it was given.
C11_FirstQuotaRecordsRetained ==
    /\ [](\A d \in Domains :
             SingleUnit(d) =>
                /\ items = FirstRecords(items_per_domain)
                /\ getpath(stats, SampledPath(d), 0) =
                      Min(items_per_domain, Len(processed)))
    /\ [](ret.call = "process_item" =>
             /\ ret.result = "item"
             /\ ret.item = {processed[Len(processed)]})
    /\ [][\A d \in Domains : LaterCall(d) => items' = items /\ stats' = stats]_vars

\* C11, its case: quota 2, three records of one unit with distinct
\* identifiers; the first two are in the sample map, the third is not, and
\* process_item has returned the third.
C11_Witness ==
    \E d \in Domains :
        /\ items_per_domain = 2
        /\ SingleUnit(d) /\ Len(processed) = 3
        /\ DOMAIN items = {processed[1].guid, processed[2].guid}
        /\ processed[3].guid \notin DOMAIN items
        /\ ret.call = "process_item" /\ ret.item = {processed[3]}

\* The sampled count of the unit, as process_item reads it.
Sampled(st, d) == IF SampledPath(d) \in DOMAIN st THEN st[SampledPath(d)] ELSE 0

\* scrapyengine.close_domain(d) is called in this step.
StopRequested(d) == engine_closes'[d] # engine_closes[d]

\* C12: the engine receives at most one close_domain request for a unit;
\* with ITEMSAMPLER_CLOSE_DOMAIN true and a quota q >= 1 it has received the
\* request exactly when the sampled count of the unit has reached q, and the
\* request is made in the call of process_item for that unit that takes the
\* count from q - 1 to q; with the flag false no request is ever made.
C12_OneStopRequest ==
    /\ [](\A d \in Domains :
             /\ engine_closes[d] <= 1
             /\ ~close_domain => engine_closes[d] = 0
             /\ (close_domain /\ items_per_domain >= 1) =>
                   (engine_closes[d] = 1 <=> Sampled(stats, d) = items_per_domain))
    /\ [][\A d \in Domains :
             StopRequested(d) =>
                /\ close_domain
                /\ engine_closes'[d] = engine_closes[d] + 1
                /\ processed' # processed
                /\ processed'[Len(processed')].domain = d
                /\ Sampled(stats, d) = items_per_domain - 1
                /\ Sampled(stats', d) = items_per_domain]_vars

\* C12, its case: flag true, quota 1, three records of one unit have
\* arrived and the engine has received one request for it.
C12_Witness ==
    \E d \in Domains :
        /\ close_domain /\ items_per_domain = 1
        /\ Len(processed) = 3
        /\ \A k \in DOMAIN processed : processed[k].domain = d
        /\ engine_closes[d] = 1

\* The close event qualifies: its status is 'finished' and the sampled count
\* of the unit is zero or absent.
Qualifies(d, status) == status = "finished" /\ Sampled(stats, d) = 0

\* C13: a unit enters empty_domains only in a domain_closed event of that
\* unit with status 'finished', handled when the sampled count of the unit
\* is zero or absent; an event with another status or with a sampled count
\* that is not zero adds nothing; an event that qualifies leaves its unit in
\* the set, once; no unit ever leaves the set.
C13_EmptyDomainsFinishedAndEmpty ==
    /\ [][\A d \in Domains :
             (d \in empty_domains' /\ d \notin empty_domains) =>
                /\ domain_closed(d, "finished")
                /\ Sampled(stats, d) = 0
                /\ empty_domains' = empty_domains \cup {d}]_vars
    /\ [][\A d \in Domains, status \in Statuses :
             domain_closed(d, status) =>
                /\ ~Qualifies(d, status) => empty_domains' = empty_domains
                /\ Qualifies(d, status) => empty_domains' = empty_domains \cup {d}]_vars
    /\ [][empty_domains \subseteq empty_domains']_vars
    /\ [](empty_domains \subseteq Domains)

\* C13, its case: two close events were handled with no record sampled, and
\* one unit is in empty_domains: the other event had another status, or was
\* a second event of the same unit.
C13_Witness ==
    /\ domains_count = 2 /\ stats = NoDict
    /\ Cardinality(empty_domains) = 1
    /\ ret.call = "domain_closed"

\* The sampled count of the unit is at or above the quota.
QuotaFilled(d) == Sampled(stats, d) >= items_per_domain

\* C14: with the sampled count of a unit at or above the quota, process_scrape
\* returns an empty result and process_result returns an empty result,
\* whatever its input; with the count below the quota process_scrape leaves
\* the extraction alone (it returns None) and process_result returns its
\* input.
C14_MiddlewareSuppressesAtQuota ==
    [][\A d \in Domains :
          /\ process_scrape(d) =>
                ret'.result = IF QuotaFilled(d) THEN "[]" ELSE "None"
          /\ \A result \in Results :
                process_result(result, d) =>
                    ret'.result = IF QuotaFilled(d) THEN "[]" ELSE result]_vars

(***************************************************************************)
(* Further properties of the Feed Exporter.                                *)
(***************************************************************************)
\* The places of a token in the content of a file.
PlacesOf(content, token) == {k \in DOMAIN content : content[k] = token}

\* The slot map holds the file, for the spider it was created for.
InSlotMap(f) ==
    \E sp \in DOMAIN slots : slots[sp].file = f /\ files[f].spider = sp

\* C15: the content of every feed file starts with the one 'begin' written
\* when its unit was opened; a record is written to a file only in a step in
\* which the slot map holds the file, before and after; 'end' is written at
\* most once, last, and only by close_spider for the unit of the file, in
\* the step that removes its slot; and once no slot holds a file its content
\* never changes again, whatever is opened, produced or closed meanwhile.
C15_SerializerProtocolOrdered ==
    /\ [](\A f \in DOMAIN files :
             LET content == files[f].content
             IN  /\ PlacesOf(content, <<"begin">>) = {1}
                 /\ PlacesOf(content, <<"end">>) \subseteq {Len(content)}
                 /\ InSlotMap(f) => PlacesOf(content, <<"end">>) = {})
    /\ [][\A f \in DOMAIN files :
             LET old == files[f].content
                 new == files'[f].content
             IN  /\ Finalized(f) => new = old
                 /\ new # old =>
                       /\ Len(new) = Len(old) + 1 /\ SubSeq(new, 1, Len(old)) = old
                       /\ new[Len(new)] # <<"begin">>
                       /\ new[Len(new)] = <<"end">> =>
                             /\ InSlotMap(f) /\ files[f].spider \notin DOMAIN slots'
                             /\ handled'[files[f].spider].closed =
                                   handled[files[f].spider].closed + 1
                       /\ new[Len(new)] # <<"end">> =>
                             /\ InSlotMap(f)
                             /\ files[f].spider \in DOMAIN slots'
                             /\ slots'[files[f].spider].file = f]_vars
    /\ [][\A f \in DOMAIN files' : f \notin DOMAIN files =>
             files'[f].content = << <<"begin">> >> /\ slots'[files'[f].spider].file = f]_vars

\* C15, its case: a unit was closed after one record and its store is in
\* flight; the unit was opened again and produced a record, which is in the
\* new file and not in the finalized one.
C15_Witness ==
    \E i \in DOMAIN stores, f \in DOMAIN files :
        /\ stores[i].state = "running"
        /\ files[stores[i].file].content = << <<"begin">>, <<"item", 1>>, <<"end">> >>
        /\ f # stores[i].file /\ files[f].spider = stores[i].spider
        /\ files[f].content = << <<"begin">>, <<"item", 2>> >>
        /\ InSlotMap(f)

\* The URI close_spider formats for the unit of the file.
FormattedUri(f) == PercentFormat(fe.urifmt, get_uri_params(files[f].spider))

\* close_spider went past its empty-feed test for the file.
PastEmptyTest(f) == Finalized(f) /\ PlacesOf(files[f].content, <<"end">>) # {}

\* C16: when close_spider formats a URI whose scheme is not in the storage
\* registry, it logs the diagnostic of the scheme and stops: it invokes no
\* store and raises nothing to the engine.
C16_UnsupportedSchemeAtClose ==
    \A f \in DOMAIN files :
        (PastEmptyTest(f) /\ urlparse_scheme(FormattedUri(f)) \notin DOMAIN fe.storages) =>
            /\ StoresOf(f) = {}
            /\ Logged(log, Diagnostic("Unknown feed storage scheme",
                                      urlparse_scheme(FormattedUri(f)))) >= 1
            /\ \A r \in raised : r.from # "close_spider"

\* The line that reports the outcome of the store with the counts of its own
\* file and the URI of its own unit.
OwnLine(store) ==
    [ level  |-> IF store.outcome = "success" THEN "INFO" ELSE "ERROR",
      msg    |-> IF store.outcome = "success" THEN "Stored" ELSE "Error storing",
      format |-> Lower(settings.FEED_FORMAT),
      items  |-> ItemsIn(files[store.file].content),
      bytes  |-> Len(files[store.file].content),
      uri    |-> PercentFormat(settings.FEED_URI, get_uri_params(store.spider)),
      spider |-> files[store.file].spider ]

\* The step changes no file but f, and of f nothing but how often it was
\* closed.
OnlyCloses(f) ==
    /\ DOMAIN files' = DOMAIN files
    /\ \A g \in DOMAIN files :
          IF g = f THEN files'[g] = [files[g] EXCEPT !.closed = files'[g].closed]
          ELSE files'[g] = files[g]

\* C17: under every interleaving of the stores of different units with each
\* other and with the signals handled in the reactor thread, the body of a
\* store run by the pool changes neither the slot map nor a count, file or
\* log line; the callbacks of a completed store change nothing but the log,
\* by the one line of that store's unit, and the file of that unit, which
\* they close; and the line of every store reports the item count of its own
\* unit's file.
C17_CompletionsActOnOwnUnit ==
    /\ [][\A i \in 1..MaxOpens :
             store_in_thread(i) =>
                /\ slots' = slots /\ files' = files /\ log' = log
                /\ \A j \in DOMAIN stores : j # i => stores'[j] = stores[j]]_vars
    /\ [][\A i \in 1..MaxOpens :
             fire_callbacks(i) =>
                /\ slots' = slots
                /\ OnlyCloses(stores[i].file)
                /\ log' = LogLine(log, OwnLine(stores'[i]))
                /\ \A j \in DOMAIN stores : j # i => stores'[j] = stores[j]]_vars
    /\ [](\A i \in DOMAIN stores :
             stores[i].state = "done" => Logged(log, OwnLine(stores[i])) >= 1)

\* C17, its case: two units with different item counts were closed, and the
\* store of the second has completed and logged its own count while the
\* store of the first is still in flight, its file open.
C17_Witness ==
    \E i \in DOMAIN stores, j \in DOMAIN stores :
        /\ i < j
        /\ stores[i].state \in {"running", "finished"} /\ stores[j].state = "done"
        /\ stores[i].spider # stores[j].spider
        /\ stores[i].logfmt.items # stores[j].logfmt.items
        /\ Logged(log, OwnLine(stores[j])) = 1
        /\ files[stores[i].file].closed = 0

(***************************************************************************)
(* Further properties of the Item Sampler.                                 *)
(***************************************************************************)
\* process_item is called for the unit in this step.
ProcessesItemOf(d) ==
    processed' # processed /\ processed'[Len(processed')].domain = d

\* C18: the sampled count of a unit lies in 0..quota; it changes only in a
\* call of process_item for that unit, by exactly one, upwards, and it does
\* so in every call of process_item that retains a record; and once the
\* middleware suppresses a unit, it does so in every later call for the unit.
C18_SampledCountMonotone ==
    /\ [](\A d \in Domains : Sampled(stats, d) \in 0..items_per_domain)
    /\ [][\A d \in Domains :
             /\ Sampled(stats', d) # Sampled(stats, d) =>
                   /\ ProcessesItemOf(d)
                   /\ Sampled(stats', d) = Sampled(stats, d) + 1
             /\ (ProcessesItemOf(d) /\ (items' # items \/ stats' # stats)) =>
                   /\ Sampled(stats', d) = Sampled(stats, d) + 1
                   /\ items'[processed'[Len(processed')].guid] = processed'[Len(processed')]
             /\ AtQuota(stats, d, items_per_domain) =>
                   /\ AtQuota(stats', d, items_per_domain)
                   /\ process_scrape(d) => ret'.result = "[]"
                   /\ \A result \in Results :
                         process_result(result, d) => ret'.result = "[]"]_vars

\* C18, its case: the count of a unit has reached the quota of two, the
\* middleware has suppressed the unit, and process_item was called for the
\* unit again before that.
C18_Witness ==
    \E d \in Domains :
        /\ items_per_domain = 2 /\ Sampled(stats, d) = 2
        /\ Len(processed) = 3 /\ \A k \in DOMAIN processed : processed[k].domain = d
        /\ ret.call = "process_result" /\ ret.result = "[]"

\* C19: the pipeline stage and the middleware agree on whether the quota of
\* a unit is filled, for every quota from 0 on and also for a unit with no
\* sampled count in the stats: the middleware returns an empty result for
\* the unit exactly when process_item would not retain a record of it.
C19_StageAndMiddlewareAgree ==
    \A d \in Domains :
        AtQuota(stats, d, items_per_domain) <=>
            ~BelowQuota(getpath(stats, SampledPath(d), 0), items_per_domain)

\* The state of the sampler but the value last returned and the history.
SamplerState ==
    <<items_per_domain, close_domain, items, domains_count, empty_domains,
      stats, engine_closes, sample_file>>

\* C20: a call of process_item for a unit leaves the sampled count of every
\* other unit, domains_count and empty_domains as they were; domain_closed
\* leaves the sample map and every sampled count as they were and adds
\* exactly one to domains_count, which nothing else changes, so that
\* empty_domains never has more units than domains_count; process_scrape and
\* process_result change no state.
C20_SamplerFrames ==
    /\ [][\A d \in Domains :
             ProcessesItemOf(d) =>
                /\ \A b \in Domains \ {d} : Sampled(stats', b) = Sampled(stats, b)
                /\ domains_count' = domains_count
                /\ empty_domains' = empty_domains]_vars
    /\ [][\A d \in Domains, status \in Statuses :
             domain_closed(d, status) =>
                /\ items' = items /\ stats' = stats
                /\ domains_count' = domains_count + 1]_vars
    /\ [][domains_count' # domains_count =>
             \E d \in Domains, status \in Statuses : domain_closed(d, status)]_vars
    /\ [](Cardinality(empty_domains) <= domains_count)
    /\ [][\A d \in Domains :
             /\ process_scrape(d) => SamplerState' = SamplerState
             /\ \A result \in Results :
                   process_result(result, d) => SamplerState' = SamplerState]_vars

\* C20, its case: one unit has a sampled record and the other none, two
\* close events were handled, one of them counted as empty, and the
\* middleware was called last.
C20_Witness ==
    /\ Sampled(stats, "d1") = 1 /\ Sampled(stats, "d2") = 0
    /\ domains_count = 2 /\ Cardinality(empty_domains) = 1
    /\ ret.call \in {"process_scrape", "process_result"}

=============================================================================
